---- MODULE Spec2Model ----
(***************************************************************************)
(* Motion poster generator (scripts/motion-demo.py): the pipeline          *)
(*   image -> depth -> frames -> video                                     *)
(* of MotionPosterGenerator.generate, as a state machine.                  *)
(*                                                                         *)
(* Number representation.  Python floats become fixed-point integers:      *)
(*   - a duration is held in tenths of a second, an intensity in tenths;   *)
(*   - sin/cos values are held in 1/Milli, normalized depth values in      *)
(*     1/DepthUnit, displaced coordinates in 1/CoordUnit pixel (the        *)
(*     product of a depth and an offset, kept exactly);                    *)
(*   - a phase is the exact fraction <<i, n>> of a turn: (i/n) * 2*pi.     *)
(* A pixel is one 8-bit channel; the three RGB channels are treated alike  *)
(* by every operation modelled here.                                       *)
(***************************************************************************)
EXTENDS Integers, Sequences, FiniteSets, TLC

\* ---------------------------------------------------------------- bounds
MaxW == 3
MaxH == 2
MaxFps == 3
MaxZoomSteps == 8
MaxParFrames == 3

\* ------------------------------------------------- fixed-point resolution
\* sin/cos values are held in 1/Milli, normalized depth values in 1/DepthUnit,
\* durations and intensities in 1/Tenth; an offset in pixels is held in
\* 1/OffsetUnit and a displaced coordinate in 1/CoordUnit, so that the
\* products of the code are exact integers here.
Milli == 1000
DepthUnit == 100
Tenth == 10
OffsetUnit == Milli * Tenth
CoordUnit == DepthUnit * OffsetUnit

\* ------------------------------------------------------ program constants
ParallaxAmpX == 20
ParallaxAmpY == 10
SwayAmpX == 15
\* f"frame_{idx:05d}.png" and ffmpeg's frame_%05d.png
NameWidth == 5
\* zoom_factor = 1.0 + sin * 0.1 * intensity, held in 1/ZoomUnit
ZoomUnit == Milli * Tenth * Tenth
\* cv2.remap, INTER_LINEAR: sample coordinates are rounded to 1/InterTabSize
InterTabSize == 32

\* ------------------------------------------------------------ arithmetic
Min2(a, b) == IF a < b THEN a ELSE b

Max2(a, b) == IF a > b THEN a ELSE b

\* Python int(): truncation toward zero of the quotient a / b, b > 0.
TruncDiv(a, b) == IF a >= 0 THEN a \div b ELSE 0 - ((0 - a) \div b)

\* Python //: floor division, b > 0.
FloorDiv(a, b) == a \div b

\* Round to nearest, ties to even (Python round(), numpy rint), b > 0.
RoundDiv(a, b) ==
    LET q == a \div b
        r == a % b
    IN  IF 2 * r < b THEN q
        ELSE IF 2 * r > b THEN q + 1
        ELSE IF q % 2 = 0 THEN q ELSE q + 1

\* np.clip(v, lo, hi)
Clip(v, lo, hi) == IF v < lo THEN lo ELSE IF v > hi THEN hi ELSE v

RECURSIVE Gcd(_, _)
Gcd(a, b) == IF b = 0 THEN a ELSE Gcd(b, a % b)

\* math.sin(2*pi*a/b) in 1/Milli, b > 0, any integer a.  The value is the
\* rational approximation 16u(1-u) / (5 - 4u(1-u)) of sin(pi*u), u in [0,1]
\* (exact at 0, pi/6, pi/2, 5pi/6, pi; absolute error below 0.002), mirrored
\* for the second half turn.  The fraction a/b is reduced first.
SinTurns(a, b) ==
    LET g == Gcd(a % b, b)
        r == (a % b) \div g
        n == b \div g
        first == 2 * r <= n
        p == IF first THEN r * (n - 2 * r) ELSE (2 * r - n) * (n - r)
        v == (32 * p * Milli) \div (5 * n * n - 8 * p)
    IN  IF first THEN v ELSE 0 - v

\* math.cos(2*pi*a/b) in 1/Milli: sin of the angle a quarter turn later.
CosTurns(a, b) == SinTurns(4 * a + b, 4 * b)


\* ---------------------------------------------------------------- images
\* An image is [w, h, px]: px maps <<x, y>>, 0 <= x < w, 0 <= y < h, to 0..255.
Coords(w, h) == (0 .. w - 1) \X (0 .. h - 1)

\* A float that may be NaN: [nan, v].
NaN == [nan |-> TRUE, v |-> 0]

Num(v) == [nan |-> FALSE, v |-> v]

SetMin(S) == CHOOSE m \in S : \A k \in S : m <= k

SetMax(S) == CHOOSE m \in S : \A k \in S : m >= k

\* ------------------------------------------------------- estimate_depth
\* depth_map = (depth_map - depth_map.min()) / (depth_map.max() - depth_map.min())
\* numpy float division: 0/0 is NaN (a RuntimeWarning, no exception).
FloatDiv(a, b) == IF b = 0 THEN NaN ELSE Num((a * DepthUnit) \div b)

\* A variant of NormalizeDepth that divides by the maximum alone.
NormalizeDepthByMax(raw) ==
    LET vals == {raw[p] : p \in DOMAIN raw}
        mn == SetMin(vals)
        mx == SetMax(vals)
    IN  [p \in DOMAIN raw |-> FloatDiv(raw[p] - mn, mx)]

NormalizeDepth(raw) ==
    LET vals == {raw[p] : p \in DOMAIN raw}
        mn == SetMin(vals)
        mx == SetMax(vals)
    IN  [p \in DOMAIN raw |-> FloatDiv(raw[p] - mn, mx - mn)]

\* ------------------------------------------------------ _apply_parallax
\* A variant of Displace without the np.clip step.
DisplaceUnclipped(c, d, offset, size) ==
    IF d.nan THEN NaN ELSE Num(c * CoordUnit + d.v * offset)

\* A variant of Displaced that moves every pixel as if its depth were 1.
DisplacedUniform(c, d, offset) ==
    IF d.nan THEN NaN ELSE Num(c * CoordUnit + DepthUnit * offset)

\* x_displaced = x_coords + (depth_map * offset_x), likewise y; NaN stays NaN.
Displaced(c, d, offset) ==
    IF d.nan THEN NaN ELSE Num(c * CoordUnit + d.v * offset)

\* x_coords + (depth_map * offset_x), then np.clip(., 0, width - 1); NaN stays NaN.
Displace(c, d, offset, size) ==
    IF d.nan THEN NaN
    ELSE Num(Clip(Displaced(c, d, offset).v, 0, (size - 1) * CoordUnit))

\* cv2.remap's conversion of a float coordinate to 1/InterTabSize pixel.
\* The conversion of NaN to an integer is undefined in C: the build decides
\* (nanEdge) whether it lands below the image or above it, and
\* BORDER_REPLICATE brings it to the nearest edge.
ToFixed(m, size, nanEdge) ==
    IF m.nan THEN (IF nanEdge = "low" THEN 0 ELSE (size - 1) * InterTabSize)
    ELSE RoundDiv(m.v * InterTabSize, CoordUnit)

\* Bilinear sample of image at fixed-point coordinates (sx, sy), BORDER_REPLICATE.
Bilinear(image, sx, sy) ==
    LET ix == Clip(sx \div InterTabSize, 0, image.w - 1)
        iy == Clip(sy \div InterTabSize, 0, image.h - 1)
        fx == sx % InterTabSize
        fy == sy % InterTabSize
        x1 == Min2(ix + 1, image.w - 1)
        y1 == Min2(iy + 1, image.h - 1)
        gx == InterTabSize - fx
        gy == InterTabSize - fy
    IN  RoundDiv(gx * gy * image.px[<<ix, iy>>] + fx * gy * image.px[<<x1, iy>>]
                 + gx * fy * image.px[<<ix, y1>>] + fx * fy * image.px[<<x1, y1>>],
                 InterTabSize * InterTabSize)

\* The clipped sample maps of _apply_parallax (x_displaced, y_displaced).
MapX(image, depth_map, offset_x) ==
    [p \in Coords(image.w, image.h) |-> Displace(p[1], depth_map[p], offset_x, image.w)]

MapY(image, depth_map, offset_y) ==
    [p \in Coords(image.w, image.h) |-> Displace(p[2], depth_map[p], offset_y, image.h)]

\* cv2.remap(image, x_displaced, y_displaced, INTER_LINEAR, BORDER_REPLICATE):
\* the result has the size of the maps.
Remap(image, mapx, mapy, nanEdge) ==
    [w |-> image.w, h |-> image.h,
     px |-> [p \in DOMAIN mapx |->
               Bilinear(image, ToFixed(mapx[p], image.w, nanEdge),
                               ToFixed(mapy[p], image.h, nanEdge))]]

ApplyParallax(image, depth_map, offset_x, offset_y, nanEdge) ==
    Remap(image, MapX(image, depth_map, offset_x), MapY(image, depth_map, offset_y), nanEdge)


\* ----------------------------------------------------------- _apply_zoom
\* A call that may raise: [ok, img]; ok = FALSE stands for cv2.error.
Raised == [ok |-> FALSE, img |-> [w |-> 0, h |-> 0, px |-> <<>>]]

Returned(img) == [ok |-> TRUE, img |-> img]

\* A variant of ResizeTap without the half-pixel centre correction: the
\* source is sampled at (d + 0.5) * sz / n.
ResizeTapShifted(d, n, sz) ==
    LET num == (2 * d + 1) * sz
        ix == num \div (2 * n)
    IN  IF ix >= sz - 1 THEN <<sz - 1, 0>>
        ELSE <<ix, num % (2 * n)>>

\* One axis of cv2.resize, INTER_LINEAR: destination index d of n samples the
\* source of size sz at (d + 0.5) * sz / n - 0.5, clamped to the image; the
\* result is <<index, weight of the next sample in 1/(2n)>>.
ResizeTap(d, n, sz) ==
    LET num == (2 * d + 1) * sz - n
        ix == num \div (2 * n)
    IN  IF num < 0 THEN <<0, 0>>
        ELSE IF ix >= sz - 1 THEN <<sz - 1, 0>>
        ELSE <<ix, num % (2 * n)>>

\* cv2.resize(image, (new_width, new_height), INTER_LINEAR); an empty or
\* negative size raises cv2.error.
Resize(image, new_width, new_height) ==
    IF new_width <= 0 \/ new_height <= 0 THEN Raised
    ELSE Returned(
      [w |-> new_width, h |-> new_height,
       px |-> [p \in Coords(new_width, new_height) |->
                 LET tx == ResizeTap(p[1], new_width, image.w)
                     ty == ResizeTap(p[2], new_height, image.h)
                     x1 == Min2(tx[1] + 1, image.w - 1)
                     y1 == Min2(ty[1] + 1, image.h - 1)
                     gx == 2 * new_width - tx[2]
                     gy == 2 * new_height - ty[2]
                 IN  RoundDiv(gx * gy * image.px[<<tx[1], ty[1]>>]
                              + tx[2] * gy * image.px[<<x1, ty[1]>>]
                              + gx * ty[2] * image.px[<<tx[1], y1>>]
                              + tx[2] * ty[2] * image.px[<<x1, y1>>],
                              4 * new_width * new_height)]])

\* Python slice bounds a[start:stop] on an axis of length len.
SliceLo(start, len) == IF start < 0 THEN Max2(start + len, 0) ELSE Min2(start, len)

\* zoomed[y_offset:y_offset+height, x_offset:x_offset+width]
Crop(zoomed, x_offset, y_offset, width, height) ==
    LET x0 == SliceLo(x_offset, zoomed.w)
        y0 == SliceLo(y_offset, zoomed.h)
        cw == Max2(SliceLo(x_offset + width, zoomed.w) - x0, 0)
        ch == Max2(SliceLo(y_offset + height, zoomed.h) - y0, 0)
    IN  [w |-> cw, h |-> ch,
         px |-> [p \in Coords(cw, ch) |-> zoomed.px[<<x0 + p[1], y0 + p[2]>>]]]

\* cv2.copyMakeBorder(zoomed, top, bottom, left, right, BORDER_REPLICATE) with
\* top = bottom and left = right; OpenCV asserts that no border is negative
\* and raises cv2.error otherwise.
CopyMakeBorder(zoomed, top, left) ==
    IF top < 0 \/ left < 0 THEN Raised
    ELSE Returned(
      [w |-> zoomed.w + 2 * left, h |-> zoomed.h + 2 * top,
       px |-> [p \in Coords(zoomed.w + 2 * left, zoomed.h + 2 * top) |->
                 zoomed.px[<<Clip(p[1] - left, 0, zoomed.w - 1),
                             Clip(p[2] - top, 0, zoomed.h - 1)>>]]])

\* A variant of NewSize that rounds up past the truncated size.
NewSizeCeil(size, zoom_factor) == TruncDiv(size * zoom_factor, ZoomUnit) + 1

\* new_height = int(height * zoom_factor); new_width = int(width * zoom_factor)
NewSize(size, zoom_factor) == TruncDiv(size * zoom_factor, ZoomUnit)

\* A variant of CropOffset that takes the whole difference, not half of it.
CropOffsetFull(new_size, size) == new_size - size

\* y_offset = (new_height - height) // 2; x_offset = (new_width - width) // 2
CropOffset(new_size, size) == FloorDiv(new_size - size, 2)

ApplyZoom(image, zoom_factor) ==
    LET new_height == NewSize(image.h, zoom_factor)
        new_width == NewSize(image.w, zoom_factor)
        zoomed == Resize(image, new_width, new_height)
        y_offset == CropOffset(new_height, image.h)
        x_offset == CropOffset(new_width, image.w)
    IN  IF ~zoomed.ok THEN Raised
        ELSE IF zoom_factor > ZoomUnit
             THEN Returned(Crop(zoomed.img, x_offset, y_offset, image.w, image.h))
        ELSE LET padded == CopyMakeBorder(zoomed.img, y_offset, x_offset)
             IN  IF ~padded.ok THEN Raised
                 ELSE Resize(padded.img, image.w, image.h)


\* ------------------------------------------------ generate_parallax_frames
\* A variant of Phase that is one step ahead: t = (i + 1) / num_frames.
PhaseOneAhead(i, num_frames) == <<i + 1, num_frames>>

\* t = i / num_frames; phase = t * 2 * math.pi: the fraction <<i, num_frames>>
\* of a turn.
Phase(i, num_frames) == <<i, num_frames>>

\* math.sin(phase)
Sin(phase) == SinTurns(phase[1], phase[2])

\* math.cos(phase * 0.5)
CosHalf(phase) == CosTurns(phase[1], 2 * phase[2])

\* offset_x = math.sin(phase) * 20 * intensity           (parallax)
\* offset_x = math.sin(phase) * 15 * intensity           (sway)
OffsetX(effect, phase, intensity) ==
    IF effect = "parallax" THEN Sin(phase) * ParallaxAmpX * intensity
    ELSE IF effect = "sway" THEN Sin(phase) * SwayAmpX * intensity
    ELSE 0

\* A variant of OffsetY that takes the cosine of the full phase.
OffsetYFullPhase(effect, phase, intensity) ==
    IF effect = "parallax"
    THEN CosTurns(phase[1], phase[2]) * ParallaxAmpY * intensity
    ELSE 0

\* A variant of OffsetY that leaves the intensity out (intensity 1.0).
OffsetYFixedIntensity(effect, phase, intensity) ==
    IF effect = "parallax" THEN CosHalf(phase) * ParallaxAmpY * Tenth
    ELSE 0

\* offset_y = math.cos(phase * 0.5) * 10 * intensity     (parallax); 0 (sway)
OffsetY(effect, phase, intensity) ==
    IF effect = "parallax" THEN CosHalf(phase) * ParallaxAmpY * intensity
    ELSE 0

\* A variant of ZoomFactor that only zooms in: 1.0 + |sin(phase)| * 0.1 * intensity.
ZoomFactorOneSided(phase, intensity) ==
    ZoomUnit + (IF Sin(phase) < 0 THEN 0 - Sin(phase) ELSE Sin(phase)) * intensity

\* zoom_factor = 1.0 + (math.sin(phase) * 0.1 * intensity)
ZoomFactor(phase, intensity) == ZoomUnit + Sin(phase) * intensity

\* The motion parameters of one frame.
Motion(effect, phase, intensity) ==
    IF effect \in {"parallax", "sway"}
    THEN [kind |-> "field", offset_x |-> OffsetX(effect, phase, intensity),
          offset_y |-> OffsetY(effect, phase, intensity), zoom_factor |-> ZoomUnit]
    ELSE IF effect = "zoom"
    THEN [kind |-> "zoom", offset_x |-> 0, offset_y |-> 0,
          zoom_factor |-> ZoomFactor(phase, intensity)]
    ELSE [kind |-> "copy", offset_x |-> 0, offset_y |-> 0, zoom_factor |-> ZoomUnit]

\* A variant of MakeFrame whose last branch falls through to the default
\* parallax warp instead of copying the image.
MakeFrameFallthrough(image, depth_map, m, nanEdge) ==
    IF m.kind = "zoom" THEN ApplyZoom(image, m.zoom_factor)
    ELSE Returned(ApplyParallax(image, depth_map,
                                IF m.kind = "field" THEN m.offset_x
                                ELSE ParallaxAmpX * OffsetUnit,
                                m.offset_y, nanEdge))

\* The body of the loop for one frame: [ok, img].
MakeFrame(image, depth_map, m, nanEdge) ==
    IF m.kind = "field"
    THEN Returned(ApplyParallax(image, depth_map, m.offset_x, m.offset_y, nanEdge))
    ELSE IF m.kind = "zoom" THEN ApplyZoom(image, m.zoom_factor)
    ELSE Returned(image)

\* A variant of NumFrames that rounds to the nearest integer.
NumFramesRounded(duration, fps) == RoundDiv(duration * fps, Tenth)

\* num_frames = int(duration * fps), duration in 1/Tenth s
NumFrames(duration, fps) == TruncDiv(duration * fps, Tenth)

\* ---------------------------------------------------------------- inputs
Effects == {"parallax", "zoom", "sway", "none"}

Intensities == {0, 10, 100}

Durations == {0 - 15, 5, 15, 29}

Schedules == (Durations \X (1 .. MaxFps)) \cup {<<40, 24>>, <<10, 10>>}

Patterns == {"solid", "gradient"}

Pixel(pattern, x, y) == IF pattern = "solid" THEN 200 ELSE (30 + 70 * x + 110 * y) % 256

Images ==
    {[w |-> w, h |-> h, px |-> [p \in Coords(w, h) |-> Pixel(pat, p[1], p[2])]] :
        w \in 1 .. MaxW, h \in 1 .. MaxH, pat \in Patterns}

\* What the depth model predicts for an image, in arbitrary units.
Predictions(img) ==
    {[p \in Coords(img.w, img.h) |-> 5],
     [p \in Coords(img.w, img.h) |-> 3 + p[1] + img.w * p[2]]}

\* ----------------------------------------------------------------- state
VARIABLES
    pc,           \* position in generate()
    model,        \* self.model: "None" or "MiDaS"
    args,         \* effect, duration, fps, intensity of the call
    image,        \* image_np
    raw,          \* the model's prediction (depth_map before normalization)
    depth_map,    \* the normalized depth map
    depth_saved,  \* depth_map.png has been written
    num_frames,
    i,            \* loop index of generate_parallax_frames
    frames,       \* the list frames
    phases,       \* the phase used for each frame so far
    motion,       \* the motion parameters and sample maps of the last frame
    nan_edge,     \* how this build converts a NaN coordinate, once it has
    err,          \* the exception that ended the run
    written,      \* the frames the encoder received, in the order it took them
    enc,          \* encode_video: the path taken, its loop index, the PNG files
    zoom_call,    \* one call of _apply_zoom followed step by step (SpecZoom)
    calls,        \* how often load_model, estimate_depth, encode_video were entered
    frame_base,   \* for each frame, the buffer its pixels live in
    poc,          \* the loop of the POC copy on the same arguments (SpecPoc)
    slots,        \* the frames computed out of order, by index (SpecPar)
    ms            \* the run of fix-milestones.py (SpecMilestones)

vars == <<pc, model, args, image, raw, depth_map, depth_saved, num_frames, i,
          frames, phases, motion, nan_edge, err, written, enc, zoom_call,
          calls, frame_base, poc, slots, ms>>

NoImage == [w |-> 0, h |-> 0, px |-> <<>>]

NoEnc == [path |-> "none", idx |-> 0, files |-> <<>>]

NoZoomCall ==
    [pc |-> "none", width |-> 0, height |-> 0, zoom_factor |-> 0, new_width |-> 0,
     new_height |-> 0, x_offset |-> 0, y_offset |-> 0, out_width |-> 0, out_height |-> 0]

\* A pixel buffer: who allocated it, and for which frame.
Buffer(owner, idx) == [owner |-> owner, idx |-> idx]

\* The buffer of image_np.
SourceBuffer == Buffer("image_np", 0)

NoPoc == [pc |-> "none", i |-> 0, frames |-> <<>>, motions |-> <<>>]

NoSlots == [pc |-> "none", done |-> <<>>, order |-> <<>>]

NoMs == [pc |-> "none", k |-> 0, new_milestones |-> <<>>, responses |-> <<>>,
         sent |-> <<>>, status |-> 0]

NoCalls == [load_model |-> 0, estimate_depth |-> 0, encode_video |-> 0]

NoMotion == [kind |-> "none", offset_x |-> 0, offset_y |-> 0, zoom_factor |-> ZoomUnit,
             mapx |-> <<>>, mapy |-> <<>>, rawx |-> <<>>, rawy |-> <<>>]

\* The state of a new generator outside any call of generate().
InitMain ==
    /\ pc = "idle"
    /\ model = "None"
    /\ args = [effect |-> "none", duration |-> 0, fps |-> 0, intensity |-> 0]
    /\ image = NoImage
    /\ raw = <<>>
    /\ depth_map = <<>>
    /\ depth_saved = FALSE
    /\ num_frames = 0
    /\ i = 0
    /\ frames = <<>>
    /\ phases = <<>>
    /\ motion = NoMotion
    /\ nan_edge = "unset"
    /\ err = "none"
    /\ written = <<>>
    /\ enc = NoEnc
    /\ calls = NoCalls
    /\ frame_base = <<>>

Init == InitMain /\ zoom_call = NoZoomCall /\ poc = NoPoc /\ slots = NoSlots /\ ms = NoMs

\* generate(input_path, output_dir, effect, duration, fps, intensity) is called.
Generate ==
    /\ pc = "idle"
    /\ \E e \in Effects, s \in Schedules, k \in Intensities :
         args' = [effect |-> e, duration |-> s[1], fps |-> s[2], intensity |-> k]
    /\ pc' = "load_model"
    /\ UNCHANGED <<model, image, raw, depth_map, depth_saved, num_frames, i,
                   frames, phases, motion, nan_edge, err, written>>
    /\ UNCHANGED <<enc, zoom_call>>
    /\ UNCHANGED <<calls, frame_base, poc, slots, ms>>

\* A variant of NeedsLoad that loads the model in every call.
NeedsLoadAlways(m) == TRUE

\* if self.model is None
NeedsLoad(m) == m = "None"

\* if self.model is None: self.load_model()  -- which exits on a failure,
\* before self.model is assigned or after it (when the transforms fail to load)
LoadModel ==
    /\ pc = "load_model"
    /\ \/ /\ NeedsLoad(model)
          /\ calls' = [calls EXCEPT !.load_model = calls.load_model + 1]
          /\ \/ model' = "MiDaS" /\ pc' = "load_image"
             \/ model' \in {model, "MiDaS"} /\ pc' = "exited"
       \/ /\ ~NeedsLoad(model)
          /\ calls' = calls
          /\ model' = model /\ pc' = "load_image"
    /\ UNCHANGED <<args, image, raw, depth_map, depth_saved, num_frames, i,
                   frames, phases, motion, nan_edge, err, written>>
    /\ UNCHANGED <<enc, zoom_call>>
    /\ UNCHANGED <<frame_base, poc, slots, ms>>

\* image_pil, image_np = self.load_image(input_path)  -- exits when the file
\* is missing or the download fails
LoadImage ==
    /\ pc = "load_image"
    /\ \/ \E img \in Images : image' = img /\ pc' = "estimate_depth"
       \/ image' = image /\ pc' = "exited"
    /\ UNCHANGED <<model, args, raw, depth_map, depth_saved, num_frames, i,
                   frames, phases, motion, nan_edge, err, written>>
    /\ UNCHANGED <<enc, zoom_call>>
    /\ UNCHANGED <<calls, frame_base, poc, slots, ms>>

\* depth_map = self.estimate_depth(image_pil); an exception of the model
\* (nothing catches it) ends generate().
EstimateDepth ==
    /\ pc = "estimate_depth"
    /\ calls' = [calls EXCEPT !.estimate_depth = calls.estimate_depth + 1]
    /\ \/ /\ \E prediction \in Predictions(image) :
               /\ raw' = prediction
               /\ depth_map' = NormalizeDepth(prediction)
          /\ pc' = "save_depth"
          /\ err' = err
       \/ /\ raw' = raw /\ depth_map' = depth_map
          /\ pc' = "failed"
          /\ err' = "estimate_depth"
    /\ UNCHANGED <<model, args, image, depth_saved, num_frames, i,
                   frames, phases, motion, nan_edge, written>>
    /\ UNCHANGED <<enc, zoom_call>>
    /\ UNCHANGED <<frame_base, poc, slots, ms>>

\* self.save_depth_visualization(depth_map, depth_output)
SaveDepthVisualization ==
    /\ pc = "save_depth"
    /\ depth_saved' = TRUE
    /\ pc' = "schedule"
    /\ UNCHANGED <<model, args, image, raw, depth_map, num_frames, i,
                   frames, phases, motion, nan_edge, err, written>>
    /\ UNCHANGED <<enc, zoom_call>>
    /\ UNCHANGED <<calls, frame_base, poc, slots, ms>>

\* num_frames = int(duration * fps); generate_parallax_frames starts:
\* frames = []
Schedule ==
    /\ pc = "schedule"
    /\ num_frames' = NumFrames(args.duration, args.fps)
    /\ frames' = <<>>
    /\ phases' = <<>>
    /\ frame_base' = <<>>
    /\ i' = 0
    /\ pc' = "frames"
    /\ UNCHANGED <<model, args, image, raw, depth_map, depth_saved,
                   motion, nan_edge, err, written>>
    /\ UNCHANGED <<enc, zoom_call>>
    /\ UNCHANGED <<calls, poc, slots, ms>>

HasNaN(d) == \E p \in DOMAIN d : d[p].nan

\* A variant of FrameDepth in which only the first frame sees the estimated
\* field and later frames a flat one.
FrameDepthFirstOnly(d, idx) ==
    IF idx = 0 THEN d ELSE [p \in DOMAIN d |-> Num(0)]

\* The depth_map argument of _apply_parallax / _apply_zoom in iteration idx.
FrameDepth(d, idx) == d

\* A variant of LoopInput that warps the frame of the previous iteration.
LoopInputPrevious(img, fs) == IF fs = <<>> THEN img ELSE fs[Len(fs)]

\* The image argument of _apply_parallax / _apply_zoom / image.copy() in an
\* iteration that has the frames fs behind it.
LoopInput(img, fs) == img

\* A variant of ImageCopy that appends the image object itself.
ImageAlias(buf, idx) == buf

\* image.copy(): a new buffer.
ImageCopy(buf, idx) == Buffer("copy", idx)

\* The buffer of the frame appended in iteration idx: the array cv2.remap
\* returns, the array cv2.resize returns (the crop is a view of it), or the
\* copy of the image.
FrameBase(m, idx) ==
    IF m.kind = "field" THEN Buffer("remap", idx)
    ELSE IF m.kind = "zoom" THEN Buffer("resize", idx)
    ELSE ImageCopy(SourceBuffer, idx)

\* One iteration of "for i in range(num_frames)".
FrameStep ==
    /\ pc = "frames"
    /\ i < num_frames
    /\ LET phase == Phase(i, num_frames)
           m == Motion(args.effect, phase, args.intensity)
           depth == FrameDepth(depth_map, i)
       IN  \E edge \in (IF m.kind = "field" /\ HasNaN(depth) /\ nan_edge = "unset"
                        THEN {"low", "high"} ELSE {nan_edge}) :
             LET frame == MakeFrame(LoopInput(image, frames), depth, m, edge)
             IN  /\ nan_edge' = edge
                 /\ phases' = Append(phases, phase)
                 /\ motion' = [kind |-> m.kind, offset_x |-> m.offset_x,
                               offset_y |-> m.offset_y, zoom_factor |-> m.zoom_factor,
                               mapx |-> IF m.kind = "field"
                                        THEN MapX(image, depth, m.offset_x) ELSE <<>>,
                               mapy |-> IF m.kind = "field"
                                        THEN MapY(image, depth, m.offset_y) ELSE <<>>,
                               rawx |-> IF m.kind = "field"
                                        THEN [p \in DOMAIN depth |->
                                                Displaced(p[1], depth[p], m.offset_x)]
                                        ELSE <<>>,
                               rawy |-> IF m.kind = "field"
                                        THEN [p \in DOMAIN depth |->
                                                Displaced(p[2], depth[p], m.offset_y)]
                                        ELSE <<>>]
                 /\ IF frame.ok
                    THEN /\ frames' = Append(frames, frame.img)
                         /\ frame_base' = Append(frame_base, FrameBase(m, i))
                         /\ i' = i + 1
                         /\ pc' = pc
                         /\ err' = err
                    ELSE /\ frames' = frames
                         /\ frame_base' = frame_base
                         /\ i' = i
                         /\ pc' = "failed"
                         /\ err' = "cv2.error"
    /\ UNCHANGED <<model, args, image, raw, depth_map, depth_saved, num_frames, written>>
    /\ UNCHANGED <<enc, zoom_call>>
    /\ UNCHANGED <<calls, poc, slots, ms>>

\* The loop is over: return frames.
FramesReturn ==
    /\ pc = "frames"
    /\ i >= num_frames
    /\ pc' = "encode"
    /\ UNCHANGED <<model, args, image, raw, depth_map, depth_saved, num_frames, i,
                   frames, phases, motion, nan_edge, err, written>>
    /\ UNCHANGED <<enc, zoom_call>>
    /\ UNCHANGED <<calls, frame_base, poc, slots, ms>>

\* ----------------------------------------------------------- encode_video
\* cv2.cvtColor(frame, cv2.COLOR_RGB2BGR): the frame with its channel order
\* marked as swapped.
ToBGR(frame) == [w |-> frame.w, h |-> frame.h, px |-> frame.px, order |-> "BGR"]

RECURSIVE Digits(_)
\* The decimal digits of n >= 0.
Digits(n) == IF n < 10 THEN <<n>> ELSE Append(Digits(n \div 10), n % 10)

RECURSIVE ZeroPad(_, _)
\* A digit string padded with zeros on the left to at least width digits.
ZeroPad(d, width) == IF Len(d) >= width THEN d ELSE ZeroPad(<<0>> \o d, width)

\* f"frame_{idx:05d}.png": the name of the PNG file of frame idx (its digits).
FrameName(idx) == ZeroPad(Digits(idx), NameWidth)

\* The file name ffmpeg derives from the pattern frame_%05d.png for number k.
PatternName(k) == ZeroPad(Digits(k), NameWidth)

RECURSIVE ReadFrom(_, _)
\* ffmpeg's image sequence reader: the files of consecutive numbers from k on,
\* up to the first number that has no file.
ReadFrom(files, k) ==
    IF PatternName(k) \in DOMAIN files
    THEN <<files[PatternName(k)]>> \o ReadFrom(files, k + 1)
    ELSE <<>>

\* What ffmpeg reads with -i frame_%05d.png: the sequence that starts at the
\* first number among 0..4 that has a file; nothing if none has.
FfmpegInput(files) ==
    LET starts == {k \in 0 .. 4 : PatternName(k) \in DOMAIN files}
    IN  IF starts = {} THEN <<>> ELSE ReadFrom(files, SetMin(starts))

\* A variant of NextFrame that always takes the first frame of the list.
NextFrameFirst(fs, idx) == fs[1]

\* The frame the loop "for idx, frame in enumerate(frames)" / "for frame in
\* frames" handles at index idx (from 0).
NextFrame(fs, idx) == fs[idx + 1]

\* cv2.imwrite(frame_path, frame_bgr): the file is created or overwritten.
WriteFile(files, name, data) ==
    [n \in DOMAIN files \cup {name} |-> IF n = name THEN data ELSE files[n]]

\* encode_video(frames, video_output, fps) starts.  With ffmpeg on the PATH
\* (the POC copy) the frames go to PNG files; otherwise (and always in the
\* scripts copy) frames[0] raises IndexError on an empty list and a video
\* writer that does not open exits.
EncodeVideo ==
    /\ pc = "encode"
    /\ calls' = [calls EXCEPT !.encode_video = calls.encode_video + 1]
    /\ \/ /\ pc' = "png_write"
          /\ enc' = [path |-> "ffmpeg", idx |-> 0, files |-> <<>>]
          /\ err' = err
       \/ /\ frames = <<>>
          /\ pc' = "failed" /\ err' = "IndexError" /\ enc' = enc
       \/ /\ frames # <<>>
          /\ \/ pc' = "exited" /\ enc' = enc /\ err' = "writer"
             \/ /\ pc' = "cv_write" /\ err' = err
                /\ enc' = [path |-> "opencv", idx |-> 0, files |-> <<>>]
    /\ UNCHANGED <<model, args, image, raw, depth_map, depth_saved, num_frames, i,
                   frames, phases, motion, nan_edge, written, zoom_call>>
    /\ UNCHANGED <<frame_base, poc, slots, ms>>

\* One iteration of "for idx, frame in enumerate(frames)": the frame is
\* written as frame_<idx>.png.
WritePng ==
    /\ pc = "png_write"
    /\ enc.idx < Len(frames)
    /\ enc' = [enc EXCEPT !.idx = enc.idx + 1,
                          !.files = WriteFile(enc.files, FrameName(enc.idx),
                                              ToBGR(NextFrame(frames, enc.idx)))]
    /\ UNCHANGED <<pc, model, args, image, raw, depth_map, depth_saved, num_frames, i,
                   frames, phases, motion, nan_edge, err, written, zoom_call>>
    /\ UNCHANGED <<calls, frame_base, poc, slots, ms>>

\* A variant of AfterFfmpegFailure that starts encode_video over.
RetryEncode == "encode"

\* except subprocess.CalledProcessError: sys.exit(1)
AfterFfmpegFailure == "exited"

\* subprocess.run(cmd, check=True): ffmpeg encodes the image sequence it finds,
\* or fails (always when it finds no input), and a failure exits.
RunFfmpeg ==
    /\ pc = "png_write"
    /\ enc.idx >= Len(frames)
    /\ \/ pc' = AfterFfmpegFailure /\ written' = written /\ err' = "ffmpeg"
       \/ /\ FfmpegInput(enc.files) # <<>>
          /\ pc' = "done" /\ written' = FfmpegInput(enc.files) /\ err' = err
    /\ UNCHANGED <<model, args, image, raw, depth_map, depth_saved, num_frames, i,
                   frames, phases, motion, nan_edge, enc, zoom_call>>
    /\ UNCHANGED <<calls, frame_base, poc, slots, ms>>

\* One iteration of "for frame in frames": out.write(frame_bgr).
WriteFrame ==
    /\ pc = "cv_write"
    /\ enc.idx < Len(frames)
    /\ written' = Append(written, ToBGR(NextFrame(frames, enc.idx)))
    /\ enc' = [enc EXCEPT !.idx = enc.idx + 1]
    /\ UNCHANGED <<pc, model, args, image, raw, depth_map, depth_saved, num_frames, i,
                   frames, phases, motion, nan_edge, err, zoom_call>>
    /\ UNCHANGED <<calls, frame_base, poc, slots, ms>>

\* out.release() after the last frame.
ReleaseWriter ==
    /\ pc = "cv_write"
    /\ enc.idx >= Len(frames)
    /\ pc' = "done"
    /\ UNCHANGED <<model, args, image, raw, depth_map, depth_saved, num_frames, i,
                   frames, phases, motion, nan_edge, err, written, enc, zoom_call>>
    /\ UNCHANGED <<calls, frame_base, poc, slots, ms>>

\* generate() returns after its summary; its locals are gone, the generator
\* object (self.model) stays and may be asked to generate again.
Return ==
    /\ pc = "done"
    /\ pc' = "idle"
    /\ args' = [effect |-> "none", duration |-> 0, fps |-> 0, intensity |-> 0]
    /\ image' = NoImage
    /\ raw' = <<>>
    /\ depth_map' = <<>>
    /\ depth_saved' = FALSE
    /\ num_frames' = 0
    /\ i' = 0
    /\ frames' = <<>>
    /\ phases' = <<>>
    /\ motion' = NoMotion
    /\ nan_edge' = "unset"
    /\ written' = <<>>
    /\ enc' = NoEnc
    /\ calls' = [calls EXCEPT !.estimate_depth = 0, !.encode_video = 0]
    /\ frame_base' = <<>>
    /\ UNCHANGED <<model, err, zoom_call>>
    /\ UNCHANGED <<poc, slots, ms>>

Next ==
    \/ Generate
    \/ LoadModel
    \/ LoadImage
    \/ EstimateDepth
    \/ SaveDepthVisualization
    \/ Schedule
    \/ FrameStep
    \/ FramesReturn
    \/ EncodeVideo
    \/ WritePng
    \/ RunFfmpeg
    \/ WriteFrame
    \/ ReleaseWriter
    \/ Return

Spec == Init /\ [][Next]_vars

\* ------------------------------------------------- _apply_zoom, step by step
\* The sizes and offsets of one call of _apply_zoom on an image of any size:
\* the arithmetic of the call without the pixels.

\* The image sizes (width, height) the call is followed for.
ZoomSizes ==
    ((1 .. MaxW) \X (1 .. MaxH)) \cup {<<200, 100>>, <<100, 100>>, <<101, 57>>, <<64, 48>>}

\* The zoom factors generate_parallax_frames can pass: every frame of every
\* loop of up to MaxZoomSteps frames, at every intensity.
ZoomFactors ==
    UNION {{ZoomFactor(Phase(k, n), a) : k \in 0 .. n - 1, a \in Intensities}
              : n \in 1 .. MaxZoomSteps}

\* The length of the slice [offset : offset + size] of an axis of length len.
SliceLen(offset, size, len) == Max2(SliceLo(offset + size, len) - SliceLo(offset, len), 0)

InitZoom ==
    /\ InitMain
    /\ poc = NoPoc /\ slots = NoSlots /\ ms = NoMs
    /\ \E size \in ZoomSizes, z \in ZoomFactors :
          zoom_call = [NoZoomCall EXCEPT !.pc = "called", !.width = size[1],
                                         !.height = size[2], !.zoom_factor = z]

MainUnchanged ==
    UNCHANGED <<pc, model, args, image, raw, depth_map, depth_saved, num_frames, i,
                frames, phases, motion, nan_edge, err, written, enc,
                calls, frame_base, poc, slots, ms>>

\* new_width, new_height, cv2.resize to them, then x_offset, y_offset.
ZoomResize ==
    /\ zoom_call.pc = "called"
    /\ LET new_width == NewSize(zoom_call.width, zoom_call.zoom_factor)
           new_height == NewSize(zoom_call.height, zoom_call.zoom_factor)
       IN  IF new_width <= 0 \/ new_height <= 0
           THEN zoom_call' = [zoom_call EXCEPT !.pc = "raised", !.new_width = new_width,
                                               !.new_height = new_height]
           ELSE zoom_call' = [zoom_call EXCEPT
                                  !.pc = "resized",
                                  !.new_width = new_width,
                                  !.new_height = new_height,
                                  !.x_offset = CropOffset(new_width, zoom_call.width),
                                  !.y_offset = CropOffset(new_height, zoom_call.height)]
    /\ MainUnchanged

\* zoom_factor > 1.0: the slice [y_offset : y_offset + height,
\* x_offset : x_offset + width] of the resized image.
ZoomCrop ==
    /\ zoom_call.pc = "resized"
    /\ zoom_call.zoom_factor > ZoomUnit
    /\ zoom_call' = [zoom_call EXCEPT
                         !.pc = "returned",
                         !.out_width = SliceLen(zoom_call.x_offset, zoom_call.width,
                                                zoom_call.new_width),
                         !.out_height = SliceLen(zoom_call.y_offset, zoom_call.height,
                                                 zoom_call.new_height)]
    /\ MainUnchanged

\* zoom_factor <= 1.0: cv2.copyMakeBorder with the offsets (it raises on a
\* negative one), then cv2.resize to (width, height).
ZoomPad ==
    /\ zoom_call.pc = "resized"
    /\ zoom_call.zoom_factor <= ZoomUnit
    /\ IF zoom_call.x_offset < 0 \/ zoom_call.y_offset < 0
       THEN zoom_call' = [zoom_call EXCEPT !.pc = "raised"]
       ELSE zoom_call' = [zoom_call EXCEPT !.pc = "returned",
                                           !.out_width = zoom_call.width,
                                           !.out_height = zoom_call.height]
    /\ MainUnchanged

NextZoom ==
    \/ ZoomResize
    \/ ZoomCrop
    \/ ZoomPad

SpecZoom == InitZoom /\ [][NextZoom]_vars

\* --------------------------- generate_parallax_frames as a function of its
\* arguments: the loop body applied out of order, and the POC copy's loop.

\* generate_parallax_frames has just been entered by generate(), with a frame
\* count of at most MaxParFrames.
AtFramesEntry ==
    /\ pc = "frames"
    /\ model = "MiDaS"
    /\ \E e \in Effects, s \in Schedules, k \in Intensities :
          /\ NumFrames(s[1], s[2]) <= MaxParFrames
          /\ args = [effect |-> e, duration |-> s[1], fps |-> s[2], intensity |-> k]
    /\ image \in Images
    /\ raw \in Predictions(image)
    /\ depth_map = NormalizeDepth(raw)
    /\ depth_saved = TRUE
    /\ num_frames = NumFrames(args.duration, args.fps)
    /\ i = 0
    /\ frames = <<>>
    /\ phases = <<>>
    /\ motion = NoMotion
    /\ nan_edge = "unset"
    /\ err = "none"
    /\ written = <<>>
    /\ enc = NoEnc
    /\ calls = [load_model |-> 1, estimate_depth |-> 1, encode_video |-> 0]
    /\ frame_base = <<>>
    /\ zoom_call = NoZoomCall
    /\ ms = NoMs

\* frames[k] = frame: a frame placed by its index.
Place(done, k, frame) ==
    [n \in DOMAIN done \cup {k} |-> IF n = k THEN frame ELSE done[n]]

InitPar ==
    /\ AtFramesEntry
    /\ poc = NoPoc
    /\ slots = [pc |-> "open", done |-> <<>>, order |-> <<>>]

\* The loop body for one index k that has no frame yet, run on its own: it
\* has the arguments of the call and no frame of another iteration.
ParStep ==
    /\ slots.pc = "open"
    /\ \E k \in (0 .. num_frames - 1) \ DOMAIN slots.done :
         LET m == Motion(args.effect, Phase(k, num_frames), args.intensity)
             depth == FrameDepth(depth_map, k)
         IN  \E edge \in (IF m.kind = "field" /\ HasNaN(depth) /\ nan_edge = "unset"
                          THEN {"low", "high"} ELSE {nan_edge}) :
               /\ nan_edge' = edge
               /\ slots' = [slots EXCEPT
                              !.done = Place(slots.done, k,
                                             MakeFrame(LoopInput(image, <<>>), depth, m, edge)),
                              !.order = Append(slots.order, k)]
    /\ UNCHANGED <<pc, model, args, image, raw, depth_map, depth_saved, num_frames, i,
                   frames, phases, motion, err, written, enc, zoom_call,
                   calls, frame_base, poc, ms>>

NextPar ==
    \/ FrameStep
    \/ FramesReturn
    \/ ParStep

SpecPar == InitPar /\ [][NextPar]_vars

\* The POC copy (docs/POC/motion-posters/motion-demo.py), generate_parallax_frames.
\* offset_x = math.sin(phase) * 20 * intensity (parallax), * 15 (sway)
PocOffsetXOneAmplitude(effect, phase, intensity) ==
    IF effect \in {"parallax", "sway"} THEN Sin(phase) * 20 * intensity ELSE 0

PocOffsetX(effect, phase, intensity) ==
    IF effect = "parallax" THEN Sin(phase) * 20 * intensity
    ELSE IF effect = "sway" THEN Sin(phase) * 15 * intensity
    ELSE 0

\* offset_y = math.cos(phase * 0.5) * 10 * intensity (parallax), 0 (sway)
PocOffsetY(effect, phase, intensity) ==
    IF effect = "parallax" THEN CosHalf(phase) * 10 * intensity ELSE 0

\* zoom_factor = 1.0 + (math.sin(phase) * 0.1 * intensity)
PocZoomFactor(phase, intensity) == ZoomUnit + Sin(phase) * intensity

PocMotion(effect, phase, intensity) ==
    IF effect = "parallax" \/ effect = "sway"
    THEN [kind |-> "field", offset_x |-> PocOffsetX(effect, phase, intensity),
          offset_y |-> PocOffsetY(effect, phase, intensity), zoom_factor |-> ZoomUnit]
    ELSE IF effect = "zoom"
    THEN [kind |-> "zoom", offset_x |-> 0, offset_y |-> 0,
          zoom_factor |-> PocZoomFactor(phase, intensity)]
    ELSE [kind |-> "copy", offset_x |-> 0, offset_y |-> 0, zoom_factor |-> ZoomUnit]

\* _apply_parallax of the POC copy.
PocDisplace(c, d, offset, size) ==
    IF d.nan THEN NaN
    ELSE Num(Clip(c * CoordUnit + d.v * offset, 0, (size - 1) * CoordUnit))

PocApplyParallax(img, depth, offset_x, offset_y, nanEdge) ==
    Remap(img,
          [p \in Coords(img.w, img.h) |-> PocDisplace(p[1], depth[p], offset_x, img.w)],
          [p \in Coords(img.w, img.h) |-> PocDisplace(p[2], depth[p], offset_y, img.h)],
          nanEdge)

\* _apply_zoom of the POC copy.
PocApplyZoom(img, zoom_factor) ==
    LET new_height == TruncDiv(img.h * zoom_factor, ZoomUnit)
        new_width == TruncDiv(img.w * zoom_factor, ZoomUnit)
        zoomed == Resize(img, new_width, new_height)
        y_offset == FloorDiv(new_height - img.h, 2)
        x_offset == FloorDiv(new_width - img.w, 2)
    IN  IF ~zoomed.ok THEN Raised
        ELSE IF zoom_factor > ZoomUnit
             THEN Returned(Crop(zoomed.img, x_offset, y_offset, img.w, img.h))
        ELSE LET padded == CopyMakeBorder(zoomed.img, y_offset, x_offset)
             IN  IF ~padded.ok THEN Raised
                 ELSE Resize(padded.img, img.w, img.h)

PocMakeFrame(img, depth, m, nanEdge) ==
    IF m.kind = "field"
    THEN Returned(PocApplyParallax(img, depth, m.offset_x, m.offset_y, nanEdge))
    ELSE IF m.kind = "zoom" THEN PocApplyZoom(img, m.zoom_factor)
    ELSE Returned(img)

InitPoc ==
    /\ AtFramesEntry
    /\ poc = [pc |-> "frames", i |-> 0, frames |-> <<>>, motions |-> <<>>]
    /\ slots = NoSlots

\* One iteration of the POC copy's loop, on the same arguments and build.
PocFrameStep ==
    /\ poc.pc = "frames"
    /\ poc.i < num_frames
    /\ LET m == PocMotion(args.effect, <<poc.i, num_frames>>, args.intensity)
       IN  \E edge \in (IF m.kind = "field" /\ HasNaN(depth_map) /\ nan_edge = "unset"
                        THEN {"low", "high"} ELSE {nan_edge}) :
             LET frame == PocMakeFrame(image, depth_map, m, edge)
             IN  /\ nan_edge' = edge
                 /\ poc' = IF frame.ok
                           THEN [poc EXCEPT !.i = poc.i + 1,
                                            !.frames = Append(poc.frames, frame.img),
                                            !.motions = Append(poc.motions, m)]
                           ELSE [poc EXCEPT !.pc = "failed",
                                            !.motions = Append(poc.motions, m)]
    /\ UNCHANGED <<pc, model, args, image, raw, depth_map, depth_saved, num_frames, i,
                   frames, phases, motion, err, written, enc, zoom_call,
                   calls, frame_base, slots, ms>>

\* The POC copy's loop is over: return frames.
PocFramesReturn ==
    /\ poc.pc = "frames"
    /\ poc.i >= num_frames
    /\ poc' = [poc EXCEPT !.pc = "returned"]
    /\ UNCHANGED <<pc, model, args, image, raw, depth_map, depth_saved, num_frames, i,
                   frames, phases, motion, nan_edge, err, written, enc, zoom_call,
                   calls, frame_base, slots, ms>>

NextPoc ==
    \/ FrameStep
    \/ FramesReturn
    \/ PocFrameStep
    \/ PocFramesReturn

SpecPoc == InitPoc /\ [][NextPoc]_vars

\* ------------------------------------------------------- fix-milestones.py
\* Strings are held as sequences of tokens, the separator ' - ' being one.
Separator == " - "

RECURSIVE SplitFirst(_)
\* title.split(' - ')[0]: what stands before the first separator.
SplitFirst(title) ==
    IF title = <<>> \/ Head(title) = Separator THEN <<>>
    ELSE <<Head(title)>> \o SplitFirst(Tail(title))

\* The titles of milestones_to_create.
milestones_to_create ==
    << <<"v2.9.5", Separator, "Quick Wins">>,
       <<"v2.9.6", Separator, "Display Polish">>,
       <<"v2.9.7", Separator, "Content Features">> >>

\* The milestone ids the server may return for a created milestone.
ReturnedIds == {5, 6, 7}

\* d[key] = value on a dict.
SetItem(d, key, value) ==
    [n \in DOMAIN d \cup {key} |-> IF n = key THEN value ELSE d[n]]

\* d.get(key, default)
Get(d, key, default) == IF key \in DOMAIN d THEN d[key] ELSE default

\* The list issues_1_7, built after the milestones were created.
issues_1_7(new_milestones) ==
    << [num |-> 1, labels |-> <<3, 13, 10>>, milestone |-> 1],
       [num |-> 2, labels |-> <<3, 13, 9>>, milestone |-> 1],
       [num |-> 3, labels |-> <<3, 13, 10>>, milestone |-> 1],
       [num |-> 4, labels |-> <<4, 13, 10>>, milestone |-> 1],
       [num |-> 5, labels |-> <<5, 13, 10>>, milestone |-> 1],
       [num |-> 6, labels |-> <<3, 13, 10>>,
        milestone |-> Get(new_milestones, <<"v2.9.5">>, 4)],
       [num |-> 7, labels |-> <<3, 14, 10>>,
        milestone |-> Get(new_milestones, <<"v2.9.5">>, 4)] >>

\* The dict issue_assignments, as the list of its items in insertion order.
issue_assignments(new_milestones) ==
    LET v2_9_5 == Get(new_milestones, <<"v2.9.5">>, 4)
        v2_9_6 == Get(new_milestones, <<"v2.9.6">>, 4)
        v2_9_7 == Get(new_milestones, <<"v2.9.7">>, 4)
        v3_0_0 == 3
        future == 4
    IN  << <<22, v2_9_6>>, <<26, v2_9_5>>, <<31, v2_9_5>>, <<38, v2_9_6>>, <<54, v2_9_6>>,
           <<23, v2_9_6>>, <<27, v2_9_6>>, <<28, v2_9_7>>, <<29, v2_9_6>>, <<30, v2_9_6>>,
           <<32, v2_9_6>>,
           <<37, v2_9_7>>, <<41, v2_9_7>>, <<42, v2_9_5>>, <<43, v2_9_6>>,
           <<24, v3_0_0>>, <<25, v3_0_0>>, <<33, v3_0_0>>, <<35, v3_0_0>>, <<36, v3_0_0>>,
           <<39, v3_0_0>>, <<40, v3_0_0>>, <<44, v3_0_0>>, <<45, v3_0_0>>, <<46, v3_0_0>>,
           <<47, v3_0_0>>, <<48, v3_0_0>>, <<50, v3_0_0>>, <<51, v3_0_0>>, <<52, v3_0_0>>,
           <<53, v3_0_0>>, <<55, v3_0_0>>,
           <<34, future>>, <<49, future>> >>

\* The script starts: nothing requested yet.
InitMilestones ==
    /\ InitMain
    /\ zoom_call = NoZoomCall /\ poc = NoPoc /\ slots = NoSlots
    /\ ms = [pc |-> "delete", k |-> 1, new_milestones |-> <<>>, responses |-> <<>>,
             sent |-> <<>>, status |-> 0]

GeneratorUnchanged ==
    UNCHANGED <<pc, model, args, image, raw, depth_map, depth_saved, num_frames, i,
                frames, phases, motion, nan_edge, err, written, enc, zoom_call,
                calls, frame_base, poc, slots>>

\* requests.get / post / patch / delete raises (no connection, timeout):
\* nothing catches it and the script ends with a traceback.
ApiCallRaises ==
    /\ ms.pc \in {"delete", "create", "update_v3", "issues_1_7", "reassign"}
    /\ ms' = [ms EXCEPT !.pc = "raised"]
    /\ GeneratorUnchanged

\* Step 1: DELETE /milestones/2
DeleteMilestone ==
    /\ ms.pc = "delete"
    /\ \E status \in {204, 404} :
          ms' = [ms EXCEPT !.pc = "create", !.k = 1, !.status = status]
    /\ GeneratorUnchanged

\* Step 2: one iteration of "for ms in milestones_to_create": POST /milestones
CreateMilestone ==
    /\ ms.pc = "create"
    /\ LET title == milestones_to_create[ms.k]
           next == IF ms.k = Len(milestones_to_create) THEN "update_v3" ELSE "create"
       IN  \/ \E ms_id \in ReturnedIds :
                ms' = [ms EXCEPT !.pc = next, !.k = ms.k + 1, !.status = 201,
                                 !.responses = Append(ms.responses,
                                                      [status |-> 201, id |-> ms_id]),
                                 !.new_milestones =
                                     SetItem(ms.new_milestones, SplitFirst(title), ms_id)]
           \/ \E status \in {200, 422} :
                ms' = [ms EXCEPT !.pc = next, !.k = ms.k + 1, !.status = status,
                                 !.responses = Append(ms.responses,
                                                      [status |-> status, id |-> 0])]
    /\ GeneratorUnchanged

\* PATCH /milestones/3 (the v3.0 title)
UpdateV3 ==
    /\ ms.pc = "update_v3"
    /\ \E status \in {200, 404} :
          ms' = [ms EXCEPT !.pc = "issues_1_7", !.k = 1, !.status = status]
    /\ GeneratorUnchanged

\* Step 3: one iteration of "for issue in issues_1_7": PATCH /issues/<num>
FixIssue ==
    /\ ms.pc = "issues_1_7"
    /\ LET list == issues_1_7(ms.new_milestones)
           issue == list[ms.k]
       IN  \E status \in {200, 404} :
             ms' = [ms EXCEPT !.pc = IF ms.k = Len(list) THEN "reassign" ELSE "issues_1_7",
                              !.k = IF ms.k = Len(list) THEN 1 ELSE ms.k + 1,
                              !.status = status,
                              !.sent = SetItem(ms.sent, issue.num, issue.milestone)]
    /\ GeneratorUnchanged

\* Step 4: one iteration of "for issue_num, milestone_id in
\* issue_assignments.items()": PATCH /issues/<issue_num>
ReassignIssue ==
    /\ ms.pc = "reassign"
    /\ LET items == issue_assignments(ms.new_milestones)
           item == items[ms.k]
       IN  \E status \in {200, 404} :
             ms' = [ms EXCEPT !.pc = IF ms.k = Len(items) THEN "done" ELSE "reassign",
                              !.k = ms.k + 1,
                              !.status = status,
                              !.sent = SetItem(ms.sent, item[1], item[2])]
    /\ GeneratorUnchanged

NextMilestones ==
    \/ ApiCallRaises
    \/ DeleteMilestone
    \/ CreateMilestone
    \/ UpdateV3
    \/ FixIssue
    \/ ReassignIssue

SpecMilestones == InitMilestones /\ [][NextMilestones]_vars


\* ================================================================ claims
\* generate() has computed num_frames and handed it to generate_parallax_frames.
Scheduled == pc \in {"frames", "encode", "png_write", "cv_write", "done"}

\* depth normalization has returned.
DepthDone == depth_map # <<>>

RawMin == SetMin({raw[p] : p \in DOMAIN raw})

RawMax == SetMax({raw[p] : p \in DOMAIN raw})

GenerationRaised == pc = "failed" /\ err = "cv2.error"

\* C1 (as stated): for duration > 0 and fps > 0 the frame count handed to the
\* sequencer is round(duration * fps), the product rounded to the nearest
\* integer.
C1_RoundsToNearest ==
    (Scheduled /\ args.duration > 0 /\ args.fps > 0)
        => num_frames = RoundDiv(args.duration * args.fps, Tenth)

\* C1 (amended): for duration > 0 and fps > 0 the frame count is the product
\* duration * fps truncated to an integer: N <= duration * fps < N + 1.
C1_Truncates ==
    (Scheduled /\ args.duration > 0 /\ args.fps > 0)
        => /\ num_frames * Tenth <= args.duration * args.fps
           /\ args.duration * args.fps < (num_frames + 1) * Tenth

\* C1 witness: a product of 2.9 has been scheduled as 2 frames.
C1_Witness ==
    Scheduled /\ args.duration * args.fps = 29 /\ num_frames = 2

\* C2 (as stated): generate_parallax_frames never raises, and what it returns
\* has exactly N frames, for every N >= 0 and every effect (96 for 4.0 s at
\* 24 fps, none for N = 0).
C2_ReturnsNFrames ==
    /\ ~GenerationRaised
    /\ (pc = "encode" /\ num_frames >= 0) => Len(frames) = num_frames

\* C3: the phase of frame i is (i / N) * 2 pi: phase(0) = 0, phases strictly
\* increase with i, and every phase lies in [0, 2 pi).
C3_Phases ==
    \A k \in 1 .. Len(phases) :
        /\ phases[k] = <<k - 1, num_frames>>
        /\ num_frames >= 1
        /\ 0 <= phases[k][1] /\ phases[k][1] < phases[k][2]
        /\ (k = 1) => phases[k][1] = 0
        /\ (k > 1) => phases[k - 1][1] * phases[k][2] < phases[k][1] * phases[k - 1][2]

\* C3 witness: three frames of a sequence have been given their phases.
C3_Witness == Len(phases) >= 3 /\ num_frames > 3

\* C4 (as stated): for every effect and intensity the motion parameters at
\* phase 0 equal those at phase 2 pi (offset_x, offset_y, zoom_factor).
C4_LoopClosure ==
    (pc = "frames" /\ num_frames >= 1)
        => Motion(args.effect, Phase(0, num_frames), args.intensity)
           = Motion(args.effect, Phase(num_frames, num_frames), args.intensity)

\* C5: for a raw depth field with max # min the normalized field is
\* (raw - min) / (max - min) per pixel (to the resolution 1/DepthUnit), every
\* value lies in [0, 1], the minimum is exactly 0 and the maximum exactly 1.
C5_Normalized ==
    (DepthDone /\ RawMax # RawMin) =>
        /\ \A p \in DOMAIN depth_map :
             /\ ~depth_map[p].nan
             /\ depth_map[p].v * (RawMax - RawMin) <= (raw[p] - RawMin) * DepthUnit
             /\ (raw[p] - RawMin) * DepthUnit < (depth_map[p].v + 1) * (RawMax - RawMin)
             /\ 0 <= depth_map[p].v /\ depth_map[p].v <= DepthUnit
        /\ \E p \in DOMAIN depth_map : depth_map[p].v = 0
        /\ \E p \in DOMAIN depth_map : depth_map[p].v = DepthUnit

\* C5 witness: a normalized field with a value strictly between 0 and 1.
C5_Witness ==
    /\ DepthDone
    /\ RawMax # RawMin
    /\ \E p \in DOMAIN depth_map : 0 < depth_map[p].v /\ depth_map[p].v < DepthUnit

\* C6 (as stated): for a uniform raw depth field the normalized field is all
\* zeros, with no NaN in it.
C6_UniformGivesZero ==
    (DepthDone /\ RawMax = RawMin)
        => \A p \in DOMAIN depth_map : ~depth_map[p].nan /\ depth_map[p].v = 0

\* C7 (as stated): when the computed frame count is <= 0, the run has no depth
\* estimate, no depth-map file, no frame and no encoder output, at any point.
C7_FailFast ==
    (pc # "idle" /\ NumFrames(args.duration, args.fps) <= 0)
        => /\ depth_map = <<>>
           /\ ~depth_saved
           /\ frames = <<>>
           /\ written = <<>>
           /\ pc \notin {"schedule", "frames", "encode", "png_write", "cv_write", "done"}

\* C8 (as stated): every frame has the width and height of the source image,
\* and no frame generation step fails, whatever the effect and intensity.
C8_FrameSize ==
    /\ ~GenerationRaised
    /\ \A k \in 1 .. Len(frames) : frames[k].w = image.w /\ frames[k].h = image.h

\* The unclamped sample coordinates of pixel p under the last frame's offsets.
UnclampedX(p) == p[1] * CoordUnit + depth_map[p].v * motion.offset_x

UnclampedY(p) == p[2] * CoordUnit + depth_map[p].v * motion.offset_y

\* C9: in the field warp, for depth values in [0, 1], the sample coordinate of
\* every pixel is x + depth * offset_x clamped to [0, W-1] and
\* y + depth * offset_y clamped to [0, H-1].
C9_Clamped ==
    (motion.kind = "field" /\ ~HasNaN(depth_map)) =>
        \A p \in DOMAIN motion.mapx :
            /\ ~motion.mapx[p].nan /\ ~motion.mapy[p].nan
            /\ 0 <= motion.mapx[p].v /\ motion.mapx[p].v <= (image.w - 1) * CoordUnit
            /\ 0 <= motion.mapy[p].v /\ motion.mapy[p].v <= (image.h - 1) * CoordUnit
            /\ motion.mapx[p].v =
                 Max2(0, Min2((image.w - 1) * CoordUnit, UnclampedX(p)))
            /\ motion.mapy[p].v =
                 Max2(0, Min2((image.h - 1) * CoordUnit, UnclampedY(p)))

\* C9 witness: a field warp in which some coordinate was pushed below 0 and
\* some coordinate beyond the last column.
C9_Witness ==
    /\ motion.kind = "field"
    /\ ~HasNaN(depth_map)
    /\ \E p \in DOMAIN motion.mapx : UnclampedY(p) < 0
    /\ \E p \in DOMAIN motion.mapx : UnclampedX(p) < 0
    /\ image.w > 1

\* C10: with an effect other than parallax, zoom or sway, every frame equals
\* the source image pixel for pixel.
C10_Identity ==
    (args.effect \notin {"parallax", "zoom", "sway"})
        => \A k \in 1 .. Len(frames) : frames[k] = image

\* C10 witness: two frames of an identity run over a non-uniform image and
\* depth field, with intensity above 1.
C10_Witness ==
    /\ args.effect = "none"
    /\ Len(frames) >= 2
    /\ args.intensity > Tenth
    /\ \E p, q \in DOMAIN image.px : image.px[p] # image.px[q]
    /\ ~HasNaN(depth_map)


\* The phase of the frame the loop worked on last.
LastPhase == phases[Len(phases)]

\* The frame appended last.
LastFrame == frames[Len(frames)]

\* C11: for the parallax effect the offsets handed to the field warp are
\* offset_x = sin(phase) * 20 * intensity and
\* offset_y = cos(phase * 0.5) * 10 * intensity, neither of them clamped.
C11_ParallaxOffsets ==
    (args.effect = "parallax" /\ motion.kind = "field") =>
        /\ motion.offset_x = SinTurns(LastPhase[1], LastPhase[2]) * ParallaxAmpX * args.intensity
        /\ motion.offset_y =
             CosTurns(LastPhase[1], 2 * LastPhase[2]) * ParallaxAmpY * args.intensity

\* C11 witness: a parallax frame past the first whose offsets are both larger
\* than the image (intensity above 1, nothing clamped them).
C11_Witness ==
    /\ args.effect = "parallax"
    /\ motion.kind = "field"
    /\ Len(phases) >= 2
    /\ motion.offset_x > image.w * OffsetUnit
    /\ motion.offset_y > image.h * OffsetUnit

\* C12 (as stated): for the sway effect offset_x = sin(phase) * 15 * intensity
\* and offset_y = 0, and every pixel of every frame is sampled from its own
\* row (y' = y).
C12_SwayHorizontalOnly ==
    (args.effect = "sway" /\ motion.kind = "field") =>
        /\ motion.offset_x = SinTurns(LastPhase[1], LastPhase[2]) * SwayAmpX * args.intensity
        /\ motion.offset_y = 0
        /\ \A p \in DOMAIN motion.mapy :
             ~motion.mapy[p].nan /\ motion.mapy[p].v = p[2] * CoordUnit

\* phase + pi, as a fraction of a turn.
HalfTurnLater(phase) == <<2 * phase[1] + phase[2], 2 * phase[2]>>

\* C13: for the zoom effect zoom_factor = 1.0 + sin(phase) * 0.1 * intensity;
\* it is symmetric around 1.0 (zoom_factor(phase) + zoom_factor(phase + pi) = 2)
\* and lies in [1 - 0.1 * intensity, 1 + 0.1 * intensity].
C13_ZoomFactor ==
    (args.effect = "zoom" /\ motion.kind = "zoom") =>
        /\ motion.zoom_factor = ZoomUnit + SinTurns(LastPhase[1], LastPhase[2]) * args.intensity
        /\ motion.zoom_factor + ZoomFactor(HalfTurnLater(LastPhase), args.intensity)
             = 2 * ZoomUnit
        /\ ZoomUnit - Milli * args.intensity <= motion.zoom_factor
        /\ motion.zoom_factor <= ZoomUnit + Milli * args.intensity

\* C13 witness: a zoom frame with a factor below 1 at an intensity above 1.
C13_Witness ==
    /\ args.effect = "zoom"
    /\ motion.kind = "zoom"
    /\ args.intensity > Tenth
    /\ motion.zoom_factor < ZoomUnit

\* C14: with intensity 0, for parallax, sway and zoom, every N >= 1 and every
\* depth field with values in [0, 1], no frame fails and every frame equals
\* the source image (so all frames are identical).
C14_FrozenAtZeroIntensity ==
    (args.intensity = 0 /\ pc # "idle" /\ args.effect \in {"parallax", "sway", "zoom"}
     /\ DepthDone /\ ~HasNaN(depth_map)) =>
        /\ ~GenerationRaised
        /\ \A k \in 1 .. Len(frames) : frames[k] = image
        /\ (pc = "encode" /\ num_frames >= 1) => Len(frames) = num_frames

\* C14 witness: three parallax frames at intensity 0 over an image with two
\* rows and a depth field that is not uniform.
C14_Witness ==
    /\ args.intensity = 0
    /\ args.effect = "parallax"
    /\ Len(frames) >= 3
    /\ image.h > 1
    /\ \E p, q \in DOMAIN image.px : image.px[p] # image.px[q]
    /\ ~HasNaN(depth_map)


\* The last frame the loop worked on was a zoom frame.
ZoomFrame == motion.kind = "zoom"

\* C15: with zoom_factor > 1.0 the frame is the W x H window of the resized
\* image at origin (trunc((new_w - W) / 2), trunc((new_h - H) / 2)), with
\* new_w = trunc(W * zoom_factor), new_h = trunc(H * zoom_factor); the origin
\* is non-negative, the window lies inside the resized image and the frame is
\* exactly W x H.
C15_CenterCrop ==
    (ZoomFrame /\ motion.zoom_factor > ZoomUnit) =>
        LET new_w == (image.w * motion.zoom_factor) \div ZoomUnit
            new_h == (image.h * motion.zoom_factor) \div ZoomUnit
            ox == (new_w - image.w) \div 2
            oy == (new_h - image.h) \div 2
        IN  /\ ~GenerationRaised
            /\ ox >= 0 /\ oy >= 0
            /\ 2 * ox <= new_w - image.w /\ new_w - image.w < 2 * ox + 2
            /\ 2 * oy <= new_h - image.h /\ new_h - image.h < 2 * oy + 2
            /\ ox + image.w <= new_w /\ oy + image.h <= new_h
            /\ LastFrame.w = image.w /\ LastFrame.h = image.h
            /\ \A p \in Coords(image.w, image.h) :
                 LastFrame.px[p] = Resize(image, new_w, new_h).img.px[<<ox + p[1], oy + p[2]>>]

\* C15 witness: a zoom-in frame cropped at an origin past (0, 0) in x, over an
\* image that is not of one colour.
C15_Witness ==
    /\ ZoomFrame
    /\ motion.zoom_factor > ZoomUnit
    /\ pc = "frames"
    /\ CropOffset(NewSize(image.w, motion.zoom_factor), image.w) >= 1
    /\ \E p, q \in DOMAIN image.px : image.px[p] # image.px[q]

\* C16 (as stated): with 0 < zoom_factor <= 1.0 the border amounts handed to
\* the padding step are never negative, the step does not fail, and the frame
\* that results is exactly W x H.
C16_PadsBack ==
    (ZoomFrame /\ 0 < motion.zoom_factor /\ motion.zoom_factor <= ZoomUnit) =>
        /\ CropOffset(NewSize(image.w, motion.zoom_factor), image.w) >= 0
        /\ CropOffset(NewSize(image.h, motion.zoom_factor), image.h) >= 0
        /\ ~GenerationRaised
        /\ LastFrame.w = image.w /\ LastFrame.h = image.h

\* C17: with zoom_factor exactly 1.0 the resize keeps W x H, the padding
\* amounts are 0 on all sides, nothing fails, and the frame is the source
\* image unchanged.
C17_UnitZoom ==
    (ZoomFrame /\ motion.zoom_factor = ZoomUnit) =>
        /\ NewSize(image.w, motion.zoom_factor) = image.w
        /\ NewSize(image.h, motion.zoom_factor) = image.h
        /\ CropOffset(NewSize(image.w, motion.zoom_factor), image.w) = 0
        /\ CropOffset(NewSize(image.h, motion.zoom_factor), image.h) = 0
        /\ ~GenerationRaised
        /\ LastFrame = image

\* C17 witness: the frame at phase pi (the third of four) of a zoom run with
\* intensity above 0, over an image that is not of one colour.
C17_Witness ==
    /\ ZoomFrame
    /\ motion.zoom_factor = ZoomUnit
    /\ args.intensity > 0
    /\ Len(frames) = 3
    /\ LastPhase = <<2, 4>>
    /\ \E p, q \in DOMAIN image.px : image.px[p] # image.px[q]


\* The flat-depth scenario: a solid image, a uniform raw depth, parallax at
\* intensity 1.0, 1.0 s at 10 fps (the image is as large as the bounds allow).
FlatDepthScenario ==
    /\ DepthDone
    /\ \A p \in DOMAIN image.px : image.px[p] = Pixel("solid", p[1], p[2])
    /\ RawMax = RawMin
    /\ args = [effect |-> "parallax", duration |-> 10, fps |-> 10, intensity |-> Tenth]

\* C19 (as stated): in the flat-depth scenario the pipeline produces exactly
\* 10 frames, every one of them the solid source image, and the normalized
\* depth field is the zero field.
C19_FlatDepth ==
    FlatDepthScenario =>
        /\ \A p \in DOMAIN depth_map : ~depth_map[p].nan /\ depth_map[p].v = 0
        /\ ~GenerationRaised
        /\ \A k \in 1 .. Len(frames) : frames[k] = image
        /\ pc \in {"encode", "done"} => Len(frames) = 10

\* The worked example of the zoom effect: a 200 x 100 image at zoom factor 1.1.
ZoomExample ==
    /\ zoom_call.width = 200
    /\ zoom_call.height = 100
    /\ zoom_call.zoom_factor = ZoomUnit + ZoomUnit \div 10

\* C18 (as stated): a 200 x 100 image at zoom factor 1.1 is resized to
\* 220 x 110, cropped from offset (5, 5), and the frame is exactly 200 x 100.
C18_CropOrigin55 ==
    (ZoomExample /\ zoom_call.pc = "returned")
        => /\ zoom_call.new_width = 220 /\ zoom_call.new_height = 110
           /\ zoom_call.x_offset = 5 /\ zoom_call.y_offset = 5
           /\ zoom_call.out_width = 200 /\ zoom_call.out_height = 100

\* C18 (amended): a 200 x 100 image at zoom factor 1.1 is resized to 220 x 110,
\* cropped from x offset 10 and y offset 5, and the frame is exactly 200 x 100;
\* the call does not raise.
C18_CropOrigin105 ==
    ZoomExample
        => /\ zoom_call.pc # "raised"
           /\ zoom_call.pc \in {"resized", "returned"}
                  => /\ zoom_call.new_width = 220 /\ zoom_call.new_height = 110
                     /\ zoom_call.x_offset = 10 /\ zoom_call.y_offset = 5
           /\ zoom_call.pc = "returned"
                  => zoom_call.out_width = 200 /\ zoom_call.out_height = 100

C18_Witness == ZoomExample /\ zoom_call.pc = "returned"

\* The encoder has been started, or has left something behind.
EncoderInvoked ==
    \/ pc \in {"png_write", "cv_write"}
    \/ enc.path # "none"
    \/ written # <<>>

\* C20: the encoder is started only after all N frames have been generated, and
\* it consumes them in generation order, each exactly once: the k-th frame
\* written to the video writer, and the k-th image ffmpeg reads from the PNG
\* sequence, is the k-th generated frame, and a finished encoding took all N.
C20_EncodesInOrder ==
    /\ (pc = "encode" \/ EncoderInvoked)
           => /\ i >= num_frames
              /\ Len(frames) = Max2(num_frames, 0)
    /\ \A k \in 1 .. Len(written) : k <= Len(frames) /\ written[k] = ToBGR(frames[k])
    /\ pc = "cv_write" => Len(written) = enc.idx
    /\ pc = "png_write"
           => /\ Cardinality(DOMAIN enc.files) = enc.idx
              /\ \A k \in 1 .. enc.idx :
                     /\ FrameName(k - 1) \in DOMAIN enc.files
                     /\ enc.files[FrameName(k - 1)] = ToBGR(frames[k])
    /\ (pc = "png_write" /\ enc.idx = Len(frames))
           => FfmpegInput(enc.files) = [k \in 1 .. Len(frames) |-> ToBGR(frames[k])]
    /\ pc = "done" => Len(written) = Len(frames)

\* An encoder has finished a list of at least three frames that are not all
\* the same.
C20_Witness ==
    /\ pc = "done"
    /\ Len(frames) >= 3
    /\ Len(written) = Len(frames)
    /\ \E k \in 2 .. Len(frames) : frames[k] # frames[1]
    /\ enc.path \in {"ffmpeg", "opencv"}


\* C21: in every run of generate() depth estimation is entered exactly once
\* and has returned before the first frame is made; every frame is made from
\* that one depth field, which no step of the frame loop changes.
C21_DepthOnce ==
    /\ [](calls.estimate_depth <= 1)
    /\ []((Scheduled \/ frames # <<>>)
              => /\ calls.estimate_depth = 1
                 /\ DepthDone
                 /\ depth_map = NormalizeDepth(raw))
    /\ [](motion.kind = "field"
              => /\ motion.mapx = MapX(image, depth_map, motion.offset_x)
                 /\ motion.mapy = MapY(image, depth_map, motion.offset_y))
    /\ [][pc = "frames" => /\ depth_map' = depth_map
                           /\ calls'.estimate_depth = calls.estimate_depth]_vars

\* C21 witness: the third frame of a parallax run over a depth field that is
\* not flat.
C21_Witness ==
    /\ args.effect = "parallax"
    /\ Len(frames) >= 3
    /\ calls.estimate_depth = 1
    /\ ~HasNaN(depth_map)
    /\ \E p, q \in DOMAIN depth_map : depth_map[p] # depth_map[q]

\* The run has ended without completing.
RunFailed == pc \in {"failed", "exited"}

\* C22: a failure of depth estimation or of encoding is fatal.  After a failed
\* depth estimation there is no second estimate, no depth map, no frame and no
\* encoder call; after a failed ffmpeg run or a writer that does not open the
\* run has exited, the encoder was entered once and on one path only, and
\* nothing counts as written; a failed run takes no further step, so it never
\* reports completion.
C22_FatalNoRetry ==
    /\ [](err = "estimate_depth"
              => /\ pc = "failed"
                 /\ calls.estimate_depth = 1
                 /\ depth_map = <<>> /\ ~depth_saved
                 /\ frames = <<>>
                 /\ calls.encode_video = 0 /\ enc = NoEnc /\ written = <<>>)
    /\ [](err \in {"ffmpeg", "writer"}
              => /\ pc = "exited"
                 /\ calls.encode_video = 1
                 /\ written = <<>>
                 /\ enc.path = (IF err = "ffmpeg" THEN "ffmpeg" ELSE "none"))
    /\ [](calls.encode_video <= 1)
    /\ [][~RunFailed]_vars

\* C22 witness: ffmpeg failed on a complete sequence of at least two images.
C22_Witness ==
    /\ err = "ffmpeg"
    /\ pc = "exited"
    /\ Len(frames) >= 2
    /\ Len(FfmpegInput(enc.files)) = Len(frames)


\* C23: frame k is a function of (k, N, effect, intensity, source image, depth
\* field) alone: every frame the sequential loop appended is what the loop
\* body gives for its index by itself, the frames computed in any order and
\* placed by index are the frames of the sequential loop, and the sequential
\* loop raises at an index exactly when the body raises for that index.
C23_OrderIndependent ==
    /\ \A k \in 1 .. Len(frames) :
          Returned(frames[k]) =
              MakeFrame(image, depth_map,
                        Motion(args.effect, Phase(k - 1, num_frames), args.intensity),
                        nan_edge)
    /\ \A k \in DOMAIN slots.done :
          /\ k < Len(frames) => slots.done[k] = Returned(frames[k + 1])
          /\ (pc = "failed" /\ k = i) => ~slots.done[k].ok
          /\ (~slots.done[k].ok /\ pc \in {"encode", "failed"}) => (pc = "failed" /\ i <= k)
    /\ (pc = "encode" /\ DOMAIN slots.done = 0 .. num_frames - 1)
          => frames = [k \in 1 .. Len(frames) |-> slots.done[k - 1].img]

\* C23 witness: a parallax sequence of three frames, not all equal, computed
\* both ways, the out-of-order one in the order 2, 0, 1.
C23_Witness ==
    /\ args.effect = "parallax"
    /\ pc = "encode"
    /\ Len(frames) = 3
    /\ slots.order = <<2, 0, 1>>
    /\ frames[2] # frames[1]


\* C24: frame generation leaves the source image and the depth field as they
\* were, and every frame lives in a buffer of its own: none is the buffer of
\* the source image and no two frames share one.
C24_SourceUntouched ==
    /\ [](Len(frame_base) = Len(frames))
    /\ [](\A k \in 1 .. Len(frame_base) : frame_base[k] # SourceBuffer)
    /\ [](Cardinality({frame_base[k] : k \in 1 .. Len(frame_base)}) = Len(frame_base))
    /\ [][pc = "frames" => /\ image' = image
                           /\ depth_map' = depth_map
                           /\ raw' = raw]_vars

\* C24 witness: generate_parallax_frames has returned two frames that equal
\* the source image pixel for pixel (the copy branch).
C24_Witness ==
    /\ pc = "encode"
    /\ args.effect = "none"
    /\ Len(frames) >= 2
    /\ frames[1] = image /\ frames[2] = image
    /\ Len(frame_base) = Len(frames)

\* The displacement of pixel p in the field warp, before clamping.
ShiftX(p) == motion.rawx[p].v - p[1] * CoordUnit

ShiftY(p) == motion.rawy[p].v - p[2] * CoordUnit

\* C25: in the field warp (parallax and sway, every phase and intensity) a
\* pixel of depth 0 is sampled from its own coordinates and equals the source
\* pixel, and a pixel of depth d is displaced, before clamping, by d times the
\* displacement of a pixel of depth 1 (depth d is held as d * DepthUnit).
C25_ProportionalToDepth ==
    (motion.kind = "field" /\ pc = "frames" /\ ~HasNaN(depth_map)) =>
        \A p \in DOMAIN depth_map :
            /\ depth_map[p].v = 0
                  => /\ motion.mapx[p] = Num(p[1] * CoordUnit)
                     /\ motion.mapy[p] = Num(p[2] * CoordUnit)
                     /\ LastFrame.px[p] = image.px[p]
            /\ \A q \in DOMAIN depth_map :
                  depth_map[q].v = DepthUnit
                      => /\ ShiftX(q) % DepthUnit = 0
                         /\ ShiftY(q) % DepthUnit = 0
                         /\ ShiftX(p) = depth_map[p].v * (ShiftX(q) \div DepthUnit)
                         /\ ShiftY(p) = depth_map[p].v * (ShiftY(q) \div DepthUnit)

\* C25 witness: a parallax frame with non-zero offsets over a depth field that
\* has a pixel of depth 0, one of depth 1 and one in between.
C25_Witness ==
    /\ motion.kind = "field"
    /\ pc = "frames"
    /\ args.effect = "parallax"
    /\ motion.offset_x # 0 /\ motion.offset_y # 0
    /\ ~HasNaN(depth_map)
    /\ \E p, q, r \in DOMAIN depth_map :
          /\ depth_map[p].v = 0
          /\ depth_map[q].v = DepthUnit
          /\ 0 < depth_map[r].v /\ depth_map[r].v < DepthUnit
          /\ ShiftX(r) # 0

\* C26: the depth model is loaded at most once per generator object: load_model
\* is entered only by a call that finds no model, and a loaded model is never
\* loaded again or replaced, over any number of generate() calls.
C26_LoadedOnce ==
    /\ [](calls.load_model <= 1)
    /\ [](model # "None" => calls.load_model = 1)
    /\ [][model # "None" => /\ model' = model
                            /\ calls'.load_model = calls.load_model]_vars
    /\ [][calls'.load_model # calls.load_model
              => (pc = "load_model" /\ model = "None")]_vars

\* C26 witness: a later generate() call has begun on a generator whose model
\* was loaded by an earlier call.
C26_Witness ==
    /\ pc = "load_model"
    /\ model = "MiDaS"
    /\ calls.load_model = 1

\* C27: on the same image, depth field, frame count, effect and intensity the
\* loop of the POC copy and the loop of the scripts copy give the same frames
\* with the same motion parameters, and the one raises where the other does.
C27_CopiesAgree ==
    /\ \A k \in 1 .. Min2(Len(frames), Len(poc.frames)) : frames[k] = poc.frames[k]
    /\ \A k \in 1 .. Min2(Len(phases), Len(poc.motions)) :
          poc.motions[k] = Motion(args.effect, phases[k], args.intensity)
    /\ (pc = "encode" /\ poc.pc \in {"returned", "failed"})
          => (poc.pc = "returned" /\ poc.frames = frames)
    /\ (pc = "failed" /\ poc.pc \in {"returned", "failed"})
          => (poc.pc = "failed" /\ poc.i = i)

\* C27 witness: both copies have returned three parallax frames that are not
\* all equal.
C27_Witness ==
    /\ pc = "encode"
    /\ poc.pc = "returned"
    /\ args.effect = "parallax"
    /\ Len(poc.frames) = 3
    /\ poc.frames[2] # poc.frames[1]


\* The issues the script's tables give to the k-th created milestone
\* (v2.9.5, v2.9.6, v2.9.7).
MeantFor(k) ==
    IF k = 1 THEN {6, 7, 26, 31, 42}
    ELSE IF k = 2 THEN {22, 38, 54, 23, 27, 29, 30, 32, 43}
    ELSE {28, 37, 41}

\* Every PATCH sent so far for an issue of a created milestone carries the id
\* that milestone's creation returned if it returned 201, and 4 otherwise.
PatchedWithCreatedId ==
    \A k \in 1 .. Len(ms.responses) :
        \A issue \in MeantFor(k) \cap DOMAIN ms.sent :
            ms.sent[issue] = IF ms.responses[k].status = 201
                             THEN ms.responses[k].id ELSE 4

\* C28 (as stated): whatever requests fail, fix-milestones.py goes on through
\* all four steps (it never stops early), and every issue meant for v2.9.5,
\* v2.9.6 or v2.9.7 is patched with the id returned by that milestone's
\* creation exactly when the creation returned 201, and with 4 otherwise.
C28_ContinuesWithValidIds ==
    /\ ms.pc # "raised"
    /\ PatchedWithCreatedId


====
